---- MODULE Spec2Model ----
(***************************************************************************)
(* The background job queue of rapidai (src/rapidai/background.py):        *)
(* InMemoryQueue with its job table, its asyncio tasks and the retry loop  *)
(* of _execute_job, run on a single cooperative event loop.                *)
(*                                                                         *)
(* A step of the model is what the event loop runs without suspending:     *)
(* one call of the queue's API (enqueue, get_result, cancel, list_jobs do  *)
(* not await anything that suspends), or one task running from one         *)
(* suspension point to the next.                                           *)
(*                                                                         *)
(* Further parts, each with its own variables and specification: the       *)
(* RedisQueue next to the InMemoryQueue, a JobResult constructed directly, *)
(* get_queue, the @cache decorator (src/rapidai/cache.py), the             *)
(* ConversationMemory (src/rapidai/memory.py), the middleware chain of     *)
(* App (src/rapidai/app.py), the RateLimiter, and an App serving requests  *)
(* with bearer_auth and rate_limit (src/rapidai/middleware).               *)
(***************************************************************************)
EXTENDS Integers, Sequences, FiniteSets, TLC

\* Bounds of the model.
MaxJobs == 2        \* enqueue calls made on the queue
MaxRetries == 3     \* largest max_retries passed to enqueue
MaxTick == 1        \* the clock advances on its own up to this time

\* Python's None (unset timestamp, result, error; get_result's not-found).
None == -1

JobIds == 1..MaxJobs
RetryValues == 0..MaxRetries
Terminal == {"completed", "failed", "cancelled"}
JobStatus == {"pending", "running"} \cup Terminal
\* list_jobs' status argument when no filter is given (status=None)
NoStatus == "None"

\* What the callable does on its a-th invocation: the value it returns and
\* the message of the exception it raises identify the invocation.
Val(a) == 100 + a
Msg(a) == a

Max(a, b) == IF a >= b THEN a ELSE b

VARIABLES now, \* datetime.now()
    jobKeys,    \* keys of self._jobs in insertion order (dict order)
    jobs,       \* self._jobs: job_id -> index of its JobResult in rows
    taskOf,     \* self._tasks: job_id -> index of its task in tasks
    rows,       \* the JobResult objects, in order of creation
    tasks,      \* the asyncio tasks running _execute_job, in order of creation
    lastCall    \* the API call that returned last: [op, arg, ret]

vars == <<now, jobKeys, jobs, taskOf, rows, tasks, lastCall>>

----------------------------------------------------------------------------
\* JobResult

JobResult_default_retries(job_id, max_retries, created) ==
    [job_id |-> job_id, status |-> "pending", result |-> None, error |-> None,
     created_at |-> created, started_at |-> None, completed_at |-> None,
     attempts |-> 0, max_retries |-> 3]

JobResult(job_id, max_retries, created) ==
    [job_id |-> job_id, status |-> "pending", result |-> None, error |-> None,
     created_at |-> created, started_at |-> None, completed_at |-> None,
     attempts |-> 0, max_retries |-> max_retries]

is_done_no_cancelled(r) == r.status \in {"completed", "failed"}

is_done(r) == r.status \in {"completed", "failed", "cancelled"}

\* the time since submission instead of the time since the start
duration_from_created(r) ==
    IF r.completed_at # None
    THEN r.completed_at - r.created_at
    ELSE None

duration(r) ==
    IF r.started_at # None /\ r.completed_at # None
    THEN r.completed_at - r.started_at
    ELSE None

----------------------------------------------------------------------------
\* asyncio.Task running _execute_job(job_id, func, args, kwargs)
\*   pc: created   - scheduled by create_task, not yet run
\*       attempt   - suspended inside `await func(...)`
\*       backoff   - suspended inside `await asyncio.sleep(delay)`
\*       returned  - the coroutine returned
\*       cancelled - CancelledError left the coroutine

NewTask(job_id) ==
    [jid |-> job_id, pc |-> "created", ref |-> 0, must_cancel |-> FALSE,
     wake |-> None, invocations |-> 0, returnedAt |-> 0,
     delays |-> <<>>, cancelOk |-> FALSE]

TaskDone(t) == t.pc \in {"returned", "cancelled"}

\* What an invocation of the callable does (lines 145-148): it returns, it
\* raises, or (a coroutine function only) it suspends at an await of its own.
\* A synchronous callable is one that never suspends.
Outcomes == {"return", "raise", "suspend"}

backoff_delay_from_one(attempts) == 2 ^ (attempts - 1)

backoff_delay(attempts) == 2 ^ attempts

on_return_no_result(r, t, clk) ==
    [row  |-> [r EXCEPT !.status = "completed", !.completed_at = clk],
     task |-> [t EXCEPT !.pc = "returned", !.returnedAt = t.invocations]]

\* lines 150-154: the callable returned
on_return(r, t, clk) ==
    [row  |-> [r EXCEPT !.status = "completed",
                        !.result = Val(t.invocations),
                        !.completed_at = clk],
     task |-> [t EXCEPT !.pc = "returned", !.returnedAt = t.invocations]]

\* the retry path stamping the start again
on_raise_restamp(r, t, clk) ==
    LET r1 == [r EXCEPT !.error = Msg(t.invocations), !.started_at = clk] IN
    IF r1.attempts >= r1.max_retries
    THEN [row  |-> [r1 EXCEPT !.status = "failed", !.completed_at = clk],
          task |-> [t EXCEPT !.pc = "returned"]]
    ELSE [row  |-> r1,
          task |-> [t EXCEPT !.pc = "backoff",
                             !.wake = clk + backoff_delay(r1.attempts),
                             !.delays = Append(@, backoff_delay(r1.attempts))]]

\* lines 162-173: the callable raised an Exception
on_raise(r, t, clk) ==
    LET r1 == [r EXCEPT !.error = Msg(t.invocations)] IN
    IF r1.attempts >= r1.max_retries
    THEN \* Failed; the loop condition of line 140 is then false
         [row  |-> [r1 EXCEPT !.status = "failed", !.completed_at = clk],
          task |-> [t EXCEPT !.pc = "returned"]]
    ELSE [row  |-> r1,
          task |-> [t EXCEPT !.pc = "backoff",
                             !.wake = clk + backoff_delay(r1.attempts),
                             !.delays = Append(@, backoff_delay(r1.attempts))]]

\* line 141 moved into the handler of line 162: only a failed invocation
\* is counted
loop_step_counts_failures(r, t, out, clk) ==
    IF r.attempts < r.max_retries
    THEN LET r1 == [r EXCEPT !.attempts = @ + 1]
             t1 == [t EXCEPT !.invocations = @ + 1, !.wake = None]
         IN  CASE out = "suspend" -> [row |-> r, task |-> [t1 EXCEPT !.pc = "attempt"]]
               [] out = "return"  -> on_return(r, t1, clk)
               [] out = "raise"   -> on_raise(r1, t1, clk)
    ELSE [row |-> r, task |-> [t EXCEPT !.pc = "returned", !.wake = None]]

\* lines 140-148: the loop condition, and one invocation of the callable
loop_step(r, t, out, clk) ==
    IF r.attempts < r.max_retries
    THEN LET r1 == [r EXCEPT !.attempts = @ + 1]
             t1 == [t EXCEPT !.invocations = @ + 1, !.wake = None]
         IN  CASE out = "suspend" -> [row |-> r1, task |-> [t1 EXCEPT !.pc = "attempt"]]
               [] out = "return"  -> on_return(r1, t1, clk)
               [] out = "raise"   -> on_raise(r1, t1, clk)
    ELSE [row |-> r, task |-> [t EXCEPT !.pc = "returned", !.wake = None]]

\* line 160 without its break: the loop goes on to the next attempt
on_cancelled_no_break(r, t, clk) ==
    loop_step([r EXCEPT !.status = "cancelled", !.completed_at = clk], t, "suspend", clk)

\* lines 156-160: CancelledError raised by `await func(...)`
on_cancelled(r, t, clk) ==
    [row  |-> [r EXCEPT !.status = "cancelled", !.completed_at = clk],
     task |-> [t EXCEPT !.pc = "returned"]]

----------------------------------------------------------------------------
\* The queue's API, as functions of the state

get_result(job_id) == IF job_id \in DOMAIN jobs THEN jobs[job_id] ELSE 0

\* line 198
cancel_honoured(job_id) ==
    /\ job_id \in DOMAIN taskOf
    /\ job_id \in DOMAIN jobs
    /\ ~ is_done(rows[jobs[job_id]])

\* sorted(jobs, key=created_at, reverse=True): stable, so equal keys keep
\* their order
RECURSIVE insert_desc(_, _)
insert_desc(s, i) ==
    IF s = <<>> THEN <<i>>
    ELSE IF rows[Head(s)].created_at >= rows[i].created_at
         THEN <<Head(s)>> \o insert_desc(Tail(s), i)
         ELSE <<i>> \o s

RECURSIVE sorted_desc(_)
sorted_desc(s) ==
    IF s = <<>> THEN <<>>
    ELSE insert_desc(sorted_desc(SubSeq(s, 1, Len(s) - 1)), s[Len(s)])

RECURSIVE filter_status(_, _)
filter_status(s, status) ==
    IF s = <<>> THEN <<>>
    ELSE (IF rows[Head(s)].status = status THEN <<Head(s)>> ELSE <<>>)
         \o filter_status(Tail(s), status)

\* the filtered list returned as collected, without line 215's sort
list_jobs_unsorted_filter(status) ==
    LET all == [k \in 1..Len(jobKeys) |-> jobs[jobKeys[k]]]
    IN  IF status # NoStatus THEN filter_status(all, status) ELSE sorted_desc(all)

\* lines 212-215; the result is the list of JobResult objects (row indices)
list_jobs(status) ==
    LET all == [k \in 1..Len(jobKeys) |-> jobs[jobKeys[k]]]
        sel == IF status # NoStatus THEN filter_status(all, status) ELSE all
    IN  sorted_desc(sel)

----------------------------------------------------------------------------
Init ==
    /\ now = 0
    /\ jobKeys = <<>>
    /\ jobs = <<>>
    /\ taskOf = <<>>
    /\ rows = <<>>
    /\ tasks = <<>>
    /\ lastCall = [op |-> "none", arg |-> None, ret |-> None]

\* Time passes.
Tick ==
    /\ now < MaxTick
    /\ now' = now + 1
    /\ UNCHANGED <<jobKeys, jobs, taskOf, rows, tasks, lastCall>>

\* InMemoryQueue.enqueue (lines 87-119)
Enqueue(job_id, max_retries) ==
    /\ Len(rows) < MaxJobs
    /\ LET n == Len(rows) + 1 IN
        /\ rows' = Append(rows, JobResult(job_id, max_retries, now))
        /\ jobs' = (job_id :> n) @@ jobs
        /\ jobKeys' = IF job_id \in DOMAIN jobs THEN jobKeys ELSE Append(jobKeys, job_id)
        /\ tasks' = Append(tasks, NewTask(job_id))
        /\ taskOf' = (job_id :> n) @@ taskOf
    /\ lastCall' = [op |-> "enqueue", arg |-> job_id, ret |-> job_id]
    /\ UNCHANGED now

\* @background's enqueue (lines 421-424): the id is a fresh uuid4, here the
\* least id not yet in use
EnqueueFresh ==
    \E max_retries \in RetryValues :
        Enqueue(Len(rows) + 1, max_retries)

\* self._jobs as a defaultdict: a lookup registers the id
GetResult_defaultdict(job_id) ==
    /\ lastCall' = [op |-> "get_result", arg |-> job_id, ret |-> Len(rows) + 1]
    /\ rows' = Append(rows, JobResult(job_id, 3, now))
    /\ jobs' = (job_id :> Len(rows) + 1) @@ jobs
    /\ UNCHANGED <<now, jobKeys, taskOf, tasks>>

\* InMemoryQueue.get_result (lines 175-184)
GetResult(job_id) ==
    /\ lastCall' = [op |-> "get_result", arg |-> job_id, ret |-> get_result(job_id)]
    /\ UNCHANGED <<now, jobKeys, jobs, taskOf, rows, tasks>>

\* InMemoryQueue.cancel (lines 186-201); Task.cancel() on a finished task
\* does nothing, on any other it arranges for CancelledError to be thrown
\* into the coroutine at its next step.
Cancel(job_id) ==
    /\ IF cancel_honoured(job_id)
       THEN /\ tasks' = [tasks EXCEPT ![taskOf[job_id]] =
                            [@ EXCEPT !.must_cancel = (@ \/ ~ TaskDone(tasks[taskOf[job_id]])),
                                      !.cancelOk = TRUE]]
            /\ lastCall' = [op |-> "cancel", arg |-> job_id, ret |-> TRUE]
       ELSE /\ tasks' = tasks
            /\ lastCall' = [op |-> "cancel", arg |-> job_id, ret |-> FALSE]
    /\ UNCHANGED <<now, jobKeys, jobs, taskOf, rows>>

\* InMemoryQueue.list_jobs (lines 203-215)
ListJobs(status) ==
    /\ lastCall' = [op |-> "list_jobs", arg |-> status, ret |-> list_jobs(status)]
    /\ UNCHANGED <<now, jobKeys, jobs, taskOf, rows, tasks>>

Commit(n, res) ==
    /\ rows' = [rows EXCEPT ![res.task.ref] = res.row]
    /\ tasks' = [tasks EXCEPT ![n] = res.task]

\* _execute_job, first step (lines 136-148): the task starts
Start(n) ==
    /\ tasks[n].pc = "created"
    /\ ~ tasks[n].must_cancel
    /\ \E out \in Outcomes :
        LET ref == jobs[tasks[n].jid]
            r == [rows[ref] EXCEPT !.status = "running", !.started_at = now]
            t == [tasks[n] EXCEPT !.ref = ref]
        IN  Commit(n, loop_step(r, t, out, now))
    /\ UNCHANGED <<now, jobKeys, jobs, taskOf, lastCall>>

\* _execute_job: the suspended callable finishes (lines 146, 150-173)
Resume(n) ==
    /\ tasks[n].pc = "attempt"
    /\ ~ tasks[n].must_cancel
    /\ \E out \in {"return", "raise"} :
        LET r == rows[tasks[n].ref]
            t == tasks[n]
        IN  Commit(n, IF out = "return" THEN on_return(r, t, now) ELSE on_raise(r, t, now))
    /\ UNCHANGED <<now, jobKeys, jobs, taskOf, lastCall>>

\* line 173 without its sleep: the next attempt starts at once
Wake_no_sleep(n) ==
    /\ tasks[n].pc = "backoff"
    /\ ~ tasks[n].must_cancel
    /\ now' = now
    /\ \E out \in Outcomes :
        Commit(n, loop_step(rows[tasks[n].ref], tasks[n], out, now'))
    /\ UNCHANGED <<jobKeys, jobs, taskOf, lastCall>>

\* _execute_job: the backoff sleep ends (line 173), the loop goes on. The
\* event loop fires timers in the order of their deadlines.
Wake(n) ==
    /\ tasks[n].pc = "backoff"
    /\ ~ tasks[n].must_cancel
    /\ \A m \in 1..Len(tasks) : tasks[m].pc = "backoff" => tasks[n].wake <= tasks[m].wake
    /\ now' = Max(now, tasks[n].wake)
    /\ \E out \in Outcomes :
        Commit(n, loop_step(rows[tasks[n].ref], tasks[n], out, now'))
    /\ UNCHANGED <<jobKeys, jobs, taskOf, lastCall>>

\* _execute_job without the handler of line 156: CancelledError leaves the
\* coroutine wherever it is thrown
DeliverCancel_uncaught(n) ==
    /\ tasks[n].must_cancel
    /\ ~ TaskDone(tasks[n])
    /\ tasks' = [tasks EXCEPT ![n] = [@ EXCEPT !.must_cancel = FALSE, !.wake = None,
                                               !.pc = "cancelled"]]
    /\ UNCHANGED <<now, jobKeys, jobs, taskOf, rows, lastCall>>

\* The event loop throws CancelledError into the task's coroutine:
\*  - never run: the coroutine ends without running any of its code;
\*  - inside `await func(...)`: caught at line 156;
\*  - inside `await asyncio.sleep(delay)` (line 173, within the handler of
\*    line 162): no handler, the exception leaves the coroutine.
DeliverCancel(n) ==
    /\ tasks[n].must_cancel
    /\ ~ TaskDone(tasks[n])
    /\ LET t == [tasks[n] EXCEPT !.must_cancel = FALSE, !.wake = None] IN
        CASE tasks[n].pc = "attempt" -> Commit(n, on_cancelled(rows[t.ref], t, now))
          [] OTHER -> /\ tasks' = [tasks EXCEPT ![n] = [t EXCEPT !.pc = "cancelled"]]
                      /\ rows' = rows
    /\ UNCHANGED <<now, jobKeys, jobs, taskOf, lastCall>>

----------------------------------------------------------------------------
\* RedisQueue (lines 218-359): the metadata of a job is a Redis hash under
\* the job's key, the submitted ids go on a Redis list. Nothing in the
\* repository takes an id off the list or writes a job's hash again, except
\* cancel.

VARIABLES redis, \* the server: [hash: job_id -> the fields of its key, queue: the list]
    redisCall     \* the RedisQueue call that returned last: [op, arg, ret]

redisVars == <<redis, redisCall>>

\* Redis holds strings. What the client stores for an int, datetime.isoformat
\* and pickle.dumps(...).hex(), with the functions that read them back.
redis_str(v) == <<"str", v>>
int(s) == s[2]
isoformat(t) == <<"iso", t>>
fromisoformat(s) == s[2]
pickle_hex(v) == <<"pickle", v>>
pickle_loads(s) == s[2]

\* HSET key field value ...: the fields given are written, the others stay
hset(hash, key, mapping) ==
    (key :> (IF key \in DOMAIN hash THEN mapping @@ hash[key] ELSE mapping)) @@ hash

\* RedisQueue.get_result (lines 288-321): <<>> is None, <<r>> a JobResult
redis_get_result(job_id) ==
    IF job_id \notin DOMAIN redis.hash
    THEN <<>>
    ELSE LET data == redis.hash[job_id]
             r0 == [JobResult(data.job_id, int(data.max_retries),
                              fromisoformat(data.created_at))
                        EXCEPT !.status = data.status, !.attempts = int(data.attempts)]
             r1 == IF "result" \in DOMAIN data
                   THEN [r0 EXCEPT !.result = pickle_loads(data.result)] ELSE r0
             r2 == IF "error" \in DOMAIN data
                   THEN [r1 EXCEPT !.error = data.error] ELSE r1
             r3 == IF "started_at" \in DOMAIN data
                   THEN [r2 EXCEPT !.started_at = fromisoformat(data.started_at)] ELSE r2
             r4 == IF "completed_at" \in DOMAIN data
                   THEN [r3 EXCEPT !.completed_at = fromisoformat(data.completed_at)] ELSE r3
         IN  <<r4>>

RedisInit ==
    /\ redis = [hash |-> <<>>, queue |-> <<>>]
    /\ redisCall = [op |-> "none", arg |-> None, ret |-> None]

\* RedisQueue.enqueue (lines 240-286), for a callable that pickle can dump
RedisEnqueue(job_id, max_retries) ==
    LET result == JobResult(job_id, max_retries, now)
        data == [job_id |-> job_id,
                 status |-> result.status,
                 created_at |-> isoformat(result.created_at),
                 max_retries |-> redis_str(max_retries),
                 attempts |-> redis_str(0),
                 func |-> pickle_hex("func"),
                 args |-> pickle_hex(<<>>),
                 kwargs |-> pickle_hex(<<>>)]
    IN  /\ redis' = [hash |-> hset(redis.hash, job_id, data),
                     queue |-> <<job_id>> \o redis.queue]
        /\ redisCall' = [op |-> "enqueue", arg |-> job_id, ret |-> job_id]

RedisGetResult(job_id) ==
    /\ redisCall' = [op |-> "get_result", arg |-> job_id, ret |-> redis_get_result(job_id)]
    /\ redis' = redis

\* RedisQueue.cancel (lines 323-336)
RedisCancel(job_id) ==
    LET result == redis_get_result(job_id) IN
    IF result # <<>> /\ ~ is_done(result[1])
    THEN /\ redis' = [redis EXCEPT !.hash = hset(@, job_id, [status |-> "cancelled"])]
         /\ redisCall' = [op |-> "cancel", arg |-> job_id, ret |-> TRUE]
    ELSE /\ redis' = redis
         /\ redisCall' = [op |-> "cancel", arg |-> job_id, ret |-> FALSE]

\* The same call made on an InMemoryQueue and on a RedisQueue
BothEnqueue ==
    \E max_retries \in RetryValues :
        /\ Enqueue(Len(rows) + 1, max_retries)
        /\ RedisEnqueue(Len(rows) + 1, max_retries)

BothGetResult(job_id) == GetResult(job_id) /\ RedisGetResult(job_id)

BothCancel(job_id) == Cancel(job_id) /\ RedisCancel(job_id)

----------------------------------------------------------------------------
\* A JobResult constructed directly, as a caller of the dataclass may

MaxStamp == 5       \* the latest timestamp given to a constructed JobResult
Stamps == 0..MaxStamp

DataInit ==
    /\ now = 0
    /\ jobKeys = <<>>
    /\ jobs = <<>>
    /\ taskOf = <<>>
    /\ tasks = <<>>
    /\ lastCall = [op |-> "none", arg |-> None, ret |-> None]
    /\ \E status \in JobStatus, created \in Stamps :
       \E started, completed \in Stamps \cup {None} :
        /\ started # None => created <= started
        /\ completed # None => created <= completed
        /\ (started # None /\ completed # None) => started <= completed
        /\ rows = <<[JobResult(1, 0, created) EXCEPT !.status = status,
                                                     !.started_at = started,
                                                     !.completed_at = completed]>>

----------------------------------------------------------------------------
\* get_queue (background.py, lines 362-386): the process-wide queue

VARIABLES _queue,   \* the module's global: <<>> is None, <<q>> a queue object
    made,            \* queue objects constructed so far; an object is [type, id]
    redis_installed, \* whether `import redis` succeeds in this process
    getQueueLog      \* the calls of get_queue: what the first successful one and
                     \* the last one were given and returned (<<>>: JobError raised)

Backends == {"memory", "redis", "bogus"}

\* a fresh instance for every call, whatever _queue holds
get_queue_per_call(backend) ==
    CASE backend = "memory" -> <<[type |-> "InMemoryQueue", id |-> made + 1]>>
      [] backend = "redis"  -> IF redis_installed
                               THEN <<[type |-> "RedisQueue", id |-> made + 1]>>
                               ELSE <<>>
      [] OTHER              -> <<>>

\* lines 378-386: the value of _queue after the call, which is also what the
\* call returns; <<>> when it raised JobError (lines 226-229, 384)
get_queue(backend) ==
    IF _queue = <<>>
    THEN CASE backend = "memory" -> <<[type |-> "InMemoryQueue", id |-> made + 1]>>
           [] backend = "redis"  -> IF redis_installed
                                    THEN <<[type |-> "RedisQueue", id |-> made + 1]>>
                                    ELSE <<>>
           [] OTHER              -> <<>>
    ELSE _queue

\* get_queue(backend); get_queue() is get_queue("memory")
GetQueue(backend) ==
    LET q == get_queue(backend) IN
    /\ _queue' = q
    /\ made' = IF q # <<>> /\ q # _queue THEN made + 1 ELSE made
    /\ getQueueLog' =
         IF getQueueLog.first = <<>> /\ q # <<>>
         THEN [first |-> q, firstArg |-> backend, last |-> q, lastArg |-> backend,
               again |-> FALSE]
         ELSE [getQueueLog EXCEPT !.last = q, !.lastArg = backend,
                                  !.again = (getQueueLog.first # <<>>)]
    /\ UNCHANGED redis_installed

----------------------------------------------------------------------------
\* @cache(ttl=...) without semantic matching (cache.py, lines 281-373), on
\* the function of test_cache_decorator

VARIABLES call_count, \* how many times the wrapped function has run
    cacheLog           \* the calls of the decorated function: [arg, at, ret, ran]

MaxCalls == 3       \* calls made of the decorated function
CacheArgs == {5, 10}
\* @cache(ttl=60)
CacheTtl == 60

expensive_function(x) == x * 2

\* InMemoryCache() (lines 35-36): an empty dict of key -> <<value, expiry>>
InMemoryCache == <<>>

\* InMemoryCache.get (lines 38-46); a key that expired reads as None
cache_get(c, key, t) ==
    IF key \in DOMAIN c /\ t < c[key][2] THEN c[key][1] ELSE None

\* InMemoryCache.set (lines 48-51)
cache_set(c, key, value, ttl, t) == (key :> <<value, t + ttl>>) @@ c

\* CacheManager(ttl=ttl) (lines 237-254): a manager owns a new backend
CacheManager(ttl) == [ttl |-> ttl, backend |-> InMemoryCache]

\* CacheManager._make_key (lines 259-262): the md5 of the JSON of the name
\* and the arguments
make_key(name, x) == <<"md5", name, x>>

\* wrapper, regular caching (lines 354-369), called at time t: what it
\* returns, whether it ran the function, and the cache it leaves behind
wrapper(x, t) ==
    LET cache_manager == CacheManager(CacheTtl)
        cache_key == make_key("expensive_function", x)
        cached_value == cache_get(cache_manager.backend, cache_key, t)
    IN  IF cached_value # None
        THEN [ret |-> cached_value, ran |-> FALSE, backend |-> cache_manager.backend]
        ELSE [ret |-> expensive_function(x), ran |-> TRUE,
              backend |-> cache_set(cache_manager.backend, cache_key,
                                    expensive_function(x), CacheTtl, t)]

CachedCall(x) ==
    /\ Len(cacheLog) < MaxCalls
    /\ LET w == wrapper(x, now) IN
        /\ call_count' = call_count + (IF w.ran THEN 1 ELSE 0)
        /\ cacheLog' = Append(cacheLog, [arg |-> x, at |-> now, ret |-> w.ret,
                                         ran |-> w.ran])

----------------------------------------------------------------------------
\* ConversationMemory over InMemoryStorage (memory.py, lines 8-58, 90-104),
\* for one user

VARIABLES _storage, \* InMemoryStorage._storage: user_id -> the messages kept
    max_history,     \* ConversationMemory.max_history
    added            \* every message passed to add, in order

MaxHistory == 3     \* largest max_history configured
MaxMsgs == 5        \* messages added

Message(role, content) == [role |-> role, content |-> content]

\* Python's s[start:] for a list s
slice_from(s, start) ==
    LET first == IF start < 0 THEN Max(Len(s) + start, 0) ELSE start
    IN  SubSeq(s, first + 1, Len(s))

\* ConversationMemory.get (lines 28-37)
memory_get(user_id) ==
    IF user_id \in DOMAIN _storage THEN _storage[user_id] ELSE <<>>

\* ConversationMemory.add (lines 39-58); the i-th message added says i
MemoryAdd(user_id) ==
    /\ Len(added) < MaxMsgs
    /\ LET message == Message("user", Len(added))
           history == IF user_id \in DOMAIN _storage THEN _storage[user_id] ELSE <<>>
           appended == Append(history, message)
           messages == IF Len(appended) > max_history
                       THEN slice_from(appended, - max_history)
                       ELSE appended
       IN  /\ _storage' = (user_id :> messages) @@ _storage
           /\ added' = Append(added, message)
    /\ UNCHANGED max_history

----------------------------------------------------------------------------
\* App (app.py): the middleware registered with use(), and an HTTP request
\* going through _handle_http and _execute_with_middleware. The coroutines
\* of one request form a call stack: a middleware awaiting next() is below
\* the callable it called.

VARIABLES _middleware, \* App._middleware
    req                 \* the request in hand: [phase, route, mws, chain, stack, trace, status]

MaxMw == 2          \* middlewares registered with use()
MaxNext == 2        \* calls of next made by one invocation of a middleware
Middlewares == {"mw_a", "mw_b"}
Routes == {"none", "plain", "stream"}

\* the list taken as it is
reversed_not(s) == s

\* reversed(self._middleware) (line 271)
reversed(s) == [k \in 1..Len(s) |-> s[Len(s) + 1 - k]]

\* lines 269-273: each middleware is wrapped around the handler built so
\* far. A chain of wrapped callables is written in the order of the calls:
\* the callable invoked first, the one it gets as next, and so on down to
\* final_handler, which awaits the route handler.
RECURSIVE wrap_all(_, _)
wrap_all(ms, next_handler) ==
    IF ms = <<>> THEN next_handler
    ELSE wrap_all(Tail(ms), <<Head(ms)>> \o next_handler)

\* lines 260-275, for a route that does not stream
build_chain(ms) ==
    IF ms = <<>> THEN <<"handler">>
    ELSE wrap_all(reversed(ms), <<"handler">>)

Event(ev, pos, name) == [ev |-> ev, pos |-> pos, name |-> name]

Frame(name) == [fn |-> name, nexts |-> 0]

NoRequest ==
    [phase |-> "idle", route |-> "none", mws |-> <<>>, chain |-> <<>>,
     stack |-> <<>>, trace |-> <<>>, status |-> 0]

AppInit ==
    /\ _middleware = <<>>
    /\ req = NoRequest

\* App.use (lines 102-121)
Use(m) ==
    /\ Len(_middleware) < MaxMw
    /\ _middleware' = Append(_middleware, m)
    /\ UNCHANGED req

\* the request is over: _send_response (line 177, always status 200) or the
\* handler of line 179 (status 500)
Finished(r, status) == [r EXCEPT !.phase = "done", !.status = status]

\* _handle_http up to the first callable of _execute_with_middleware
\* (lines 153-175, 254-275)
HttpRequest(route) ==
    /\ req.phase \in {"idle", "done"}
    /\ LET r == [NoRequest EXCEPT !.route = route, !.mws = _middleware] IN
       req' = CASE route = "none" -> Finished(r, 404)
                [] route = "stream" ->
                     Finished([r EXCEPT !.trace = <<Event("handler", 0, "handler")>>], 200)
                [] OTHER ->
                     LET chain == build_chain(_middleware) IN
                     [r EXCEPT !.phase = "running",
                               !.chain = chain,
                               !.stack = <<Frame(chain[1])>>,
                               !.trace = <<Event(IF chain[1] = "handler"
                                                 THEN "handler" ELSE "enter",
                                                 1, chain[1])>>]
    /\ UNCHANGED _middleware

\* the running middleware awaits next() (line 283)
CallNext ==
    /\ req.phase = "running"
    /\ LET d == Len(req.stack)
           callee == req.chain[d + 1]
       IN  /\ req.stack[d].fn # "handler"
           /\ req.stack[d].nexts < MaxNext
           /\ req' = [req EXCEPT
                        !.stack = Append([@ EXCEPT ![d].nexts = @ + 1], Frame(callee)),
                        !.trace = @ \o <<Event("next", d, req.stack[d].fn),
                                         Event(IF callee = "handler"
                                               THEN "handler" ELSE "enter",
                                               d + 1, callee)>>]
    /\ UNCHANGED _middleware

Pop(ev, phase) ==
    LET d == Len(req.stack)
        r == [req EXCEPT !.stack = SubSeq(@, 1, d - 1),
                         !.trace = Append(@, Event(ev, d, req.stack[d].fn)),
                         !.phase = phase]
    IN  req' = IF d = 1 THEN Finished(r, IF ev = "raise" THEN 500 ELSE 200) ELSE r

\* the running callable returns its response to the caller awaiting it
Return ==
    /\ req.phase = "running"
    /\ Pop("exit", "running")
    /\ UNCHANGED _middleware

\* the running callable raises, or the exception raised by next() is not
\* caught by the middleware that awaited it
Raise ==
    /\ req.phase \in {"running", "raising"}
    /\ Pop("raise", "raising")
    /\ UNCHANGED _middleware

\* a middleware catches the exception that its await of next() raised
Catch ==
    /\ req.phase = "raising"
    /\ req' = [req EXCEPT !.phase = "running",
                          !.trace = Append(@, Event("catch", Len(req.stack),
                                                    req.stack[Len(req.stack)].fn))]
    /\ UNCHANGED _middleware

----------------------------------------------------------------------------
\* RateLimiter (middleware/rate_limit.py): per key, the timestamps of the
\* requests let through within the window.

VARIABLES wall, \* time.time(), in seconds
    limiter,    \* the RateLimiter: [max_requests, window_seconds, requests]
    accepted,   \* per key, the timestamps of the is_allowed calls that returned True so far
    rateCall    \* the RateLimiter call that returned last: [op, key, ret]

MaxTime == 2        \* seconds that pass
MaxAccepted == 4    \* calls of is_allowed let through, per key
MaxRequests == 2    \* largest max_requests
MaxWindow == 2      \* largest window_seconds
Keys == {"unknown", "c1"}

RateLimiter(max_requests, window_seconds) ==
    [max_requests |-> max_requests, window_seconds |-> window_seconds,
     requests |-> [key \in Keys |-> <<>>]]

\* lines 35-37 and 59-61: the timestamps later than the start of the window
in_window(timestamps, lim, clk) ==
    SelectSeq(timestamps, LAMBDA timestamp : timestamp > clk - lim.window_seconds)

\* the limit of line 40 taken inclusively
is_allowed_inclusive(lim, key, clk) ==
    LET kept == in_window(lim.requests[key], lim, clk) IN
    IF Len(kept) <= lim.max_requests
    THEN [ok |-> TRUE, requests |-> [lim.requests EXCEPT ![key] = Append(kept, clk)]]
    ELSE [ok |-> FALSE, requests |-> [lim.requests EXCEPT ![key] = kept]]

\* RateLimiter.is_allowed (lines 22-44): the answer and the new self.requests
is_allowed(lim, key, clk) ==
    LET kept == in_window(lim.requests[key], lim, clk) IN
    IF Len(kept) < lim.max_requests
    THEN [ok |-> TRUE, requests |-> [lim.requests EXCEPT ![key] = Append(kept, clk)]]
    ELSE [ok |-> FALSE, requests |-> [lim.requests EXCEPT ![key] = kept]]

\* RateLimiter.get_remaining (lines 46-63)
get_remaining(lim, key, clk) ==
    Max(0, lim.max_requests - Len(in_window(lim.requests[key], lim, clk)))

\* a RateLimiter(max_requests, window_seconds) just constructed
RateStart(max_requests, window_seconds) ==
    /\ wall = 0
    /\ limiter = RateLimiter(max_requests, window_seconds)
    /\ accepted = [key \in Keys |-> <<>>]
    /\ rateCall = [op |-> "none", key |-> "", ret |-> FALSE]

TimePasses ==
    /\ wall < MaxTime
    /\ wall' = wall + 1
    /\ UNCHANGED <<limiter, accepted, rateCall>>

IsAllowed(key) ==
    LET a == is_allowed(limiter, key, wall) IN
    /\ Len(accepted[key]) < MaxAccepted
    /\ limiter' = [limiter EXCEPT !.requests = a.requests]
    /\ accepted' = IF a.ok THEN [accepted EXCEPT ![key] = Append(@, wall)] ELSE accepted
    /\ rateCall' = [op |-> "is_allowed", key |-> key, ret |-> a.ok]
    /\ UNCHANGED wall

GetRemaining(key) ==
    /\ rateCall' = [op |-> "get_remaining", key |-> key,
                    ret |-> get_remaining(limiter, key, wall)]
    /\ UNCHANGED <<wall, limiter, accepted>>

----------------------------------------------------------------------------
\* An App with bearer_auth(Token) and rate_limit(...) registered, serving
\* HTTP requests (app.py _handle_http, middleware/auth.py, rate_limit.py).
\* A request is what _handle_http gets: the route that the path and method
\* select, the Authorization header of the ASGI scope, and the values that
\* the query string and the JSON body give to the handler's parameters
\* (_parse_request, _extract_params). A dict is written <<"dict", v>>, for
\* the one key that the middleware looks up in it; v = <<>> when the key is
\* not there.

VARIABLES http  \* the last exchange: [request, mws, ran, called, raised, response, sent]

Token == "tok"
Bearer(token) == <<"Bearer", token>>        \* f"Bearer {token}"
HeaderValues == {<<>>, Bearer(Token)}         \* <<>>: no Authorization header
Missing == <<"missing">>                    \* no such handler parameter
NoneValue == <<"none">>                     \* the parameter's default, None
Dict(v) == <<"dict", v>>
HeadersParams ==
    {Missing, NoneValue} \cup {Dict(v) : v \in HeaderValues \cup {Bearer("bad")}}
ClientParams == {Missing, Dict("c1")}
ServedMiddlewares == {"bearer_auth", "rate_limit"}
NoParams == [headers |-> Missing, client |-> Missing]
HttpRequests ==
    {[route |-> "none", authorization |-> <<>>, params |-> NoParams]}
    \cup [route : {"plain", "stream"}, authorization : HeaderValues,
          params : [headers : HeadersParams, client : ClientParams]]

\* a response dict: its "status" entry (None without one), what its body
\* says, and its X-RateLimit-Remaining header (None without one)
Response(status, body, remaining) ==
    [status |-> status, body |-> body, remaining |-> remaining]
NoResponse == Response(None, "", None)
HandlerResult == Response(None, "ok", None)

\* verify of bearer_auth (lines 67-78), applied to what the middleware is
\* given, the handler's params (app.py line 283): "yes", "no", or "error"
\* when params["headers"] is None and .get raises AttributeError
verify(request, token) ==
    LET headers == IF request.headers = Missing THEN Dict(<<>>) ELSE request.headers IN
    IF headers = NoneValue THEN "error"
    ELSE IF headers[2] = Bearer(token) THEN "yes" ELSE "no"

\* the default key_fn of rate_limit (lines 103-107)
key_fn(request) ==
    IF request.client = Missing THEN "unknown" ELSE request.client[2]

\* the handler awaited at the end of the chain (app.py lines 263-267)
call_handler(requests, out) ==
    [response |-> IF out = "return" THEN HandlerResult ELSE NoResponse,
     raised |-> (out = "raise"), called |-> TRUE, ran |-> <<>>,
     requests |-> requests, allowed |-> <<>>]

\* awaiting the callable built by _execute_with_middleware (app.py lines
\* 262-285): what it returns or that it raised, whether the handler was
\* called, the middlewares that ran, the limiter's requests afterwards and
\* the keys is_allowed let through
RECURSIVE run_chain(_, _, _, _, _)
run_chain(chain, params, requests, clk, out) ==
    LET m == Head(chain)
        stop(response, raised, reqs) ==
            [response |-> response, raised |-> raised, called |-> FALSE,
             ran |-> <<m>>, requests |-> reqs, allowed |-> <<>>]
    IN
    CASE m = "handler" -> call_handler(requests, out)
      [] m = "bearer_auth" ->
            \* auth's middleware (auth.py lines 30-43)
            LET v == verify(params, Token) IN
            IF v = "error" THEN stop(NoResponse, TRUE, requests)
            ELSE IF v = "no" THEN stop(Response(401, "Unauthorized", None), FALSE, requests)
            ELSE LET r == run_chain(Tail(chain), params, requests, clk, out)
                 IN  [r EXCEPT !.ran = <<m>> \o @]
      [] m = "rate_limit" ->
            \* rate_limit's middleware (rate_limit.py lines 109-154)
            LET key == key_fn(params)
                a == is_allowed([limiter EXCEPT !.requests = requests], key, clk)
                remaining(reqs) == get_remaining([limiter EXCEPT !.requests = reqs], key, clk)
            IN  IF ~ a.ok
                THEN stop(Response(429, "Too many requests", remaining(a.requests)),
                          FALSE, a.requests)
                ELSE LET r == run_chain(Tail(chain), params, a.requests, clk, out)
                         r1 == [r EXCEPT !.ran = <<m>> \o @, !.allowed = <<key>> \o @]
                     IN  IF r.raised THEN r1
                         ELSE [r1 EXCEPT !.response.remaining = remaining(r.requests)]

\* ASGI messages
Message_start(status) ==
    [type |-> "http.response.start", status |-> status, data |-> NoResponse]
Message_body(data) ==
    [type |-> "http.response.body", status |-> None, data |-> data]

\* App._send_json (lines 296-311)
_send_json(data, status) == <<Message_start(status), Message_body(data)>>

\* App._send_response (lines 287-294), for a dict
_send_response(response) == _send_json(response, 200)

\* StreamingResponse.send (streaming.py lines 132-150)
StreamingResponse_send(out) ==
    <<Message_start(200),
      Message_body(Response(None, IF out = "raise" THEN "error" ELSE "chunk", None)),
      Message_body(NoResponse)>>

NoExchange ==
    [request |-> [route |-> "none", authorization |-> <<>>, params |-> NoParams],
     mws |-> <<>>, ran |-> <<>>, called |-> FALSE, raised |-> FALSE,
     response |-> NoResponse, sent |-> <<>>]

ServerStart == http = NoExchange

\* App.use with a middleware made by bearer_auth(Token) or rate_limit(...);
\* each factory is used once
ServerUse(m) ==
    /\ \A k \in 1..Len(_middleware) : _middleware[k] # m
    /\ Use(m)
    /\ UNCHANGED <<wall, limiter, accepted, rateCall, http>>

\* App._handle_http (lines 153-186) for one request, with the handler
\* returning a dict or raising (out)
Serve(request) ==
    /\ \E out \in {"return", "raise"} :
           LET exchange == [NoExchange EXCEPT !.request = request, !.mws = _middleware]
               r == IF request.route = "stream"
                    THEN call_handler(limiter.requests, out)
                    ELSE run_chain(build_chain(_middleware), request.params,
                                   limiter.requests, wall, out)
               done == [exchange EXCEPT !.ran = r.ran, !.called = r.called,
                                        !.raised = r.raised, !.response = r.response]
           IN
           CASE request.route = "none" ->
                   /\ http' = [exchange EXCEPT
                                 !.sent = _send_json(Response(None, "Not Found", None), 404)]
                   /\ UNCHANGED <<limiter, accepted>>
             [] request.route = "stream" ->
                   /\ http' = [done EXCEPT !.response = NoResponse,
                                           !.sent = StreamingResponse_send(out)]
                   /\ UNCHANGED <<limiter, accepted>>
             [] OTHER ->
                   /\ http' = [done EXCEPT
                                 !.sent = IF r.raised
                                          THEN _send_json(Response(None, "error", None), 500)
                                          ELSE _send_response(r.response)]
                   /\ limiter' = [limiter EXCEPT !.requests = r.requests]
                   /\ accepted' = IF r.allowed = <<>> THEN accepted
                                  ELSE [accepted EXCEPT ![r.allowed[1]] = Append(@, wall)]
    /\ UNCHANGED <<wall, rateCall, _middleware, req>>

----------------------------------------------------------------------------
\* The specifications. Each one runs one part of the program and leaves the
\* state of the other parts as it was at the start.

gqVars == <<_queue, made, redis_installed, getQueueLog>>
cacheVars == <<call_count, cacheLog>>
memVars == <<_storage, max_history, added>>
libVars == <<gqVars, cacheVars, memVars>>
appVars == <<_middleware, req>>
rateVars == <<wall, limiter, accepted, rateCall>>
srvVars == <<rateVars, http>>
allVars == <<vars, redisVars, libVars, appVars, srvVars>>

\* nothing imported or called yet, in a process where `import redis` succeeds
\* or not, with a ConversationMemory configured with max_history = history
LibStart(installed, history) ==
    /\ _queue = <<>>
    /\ made = 0
    /\ redis_installed = installed
    /\ getQueueLog = [first |-> <<>>, firstArg |-> "", last |-> <<>>, lastArg |-> "",
                      again |-> FALSE]
    /\ call_count = 0
    /\ cacheLog = <<>>
    /\ _storage = <<>>
    /\ max_history = history
    /\ added = <<>>

LibInit ==
    \E installed \in BOOLEAN, history \in 0..MaxHistory : LibStart(installed, history)

QueueOnly == UNCHANGED <<redisVars, libVars, appVars, srvVars>>

Next ==
    \/ Tick /\ QueueOnly
    \/ EnqueueFresh /\ QueueOnly
    \/ \E job_id \in JobIds : GetResult(job_id) /\ QueueOnly
    \/ \E job_id \in JobIds : Cancel(job_id) /\ QueueOnly
    \/ \E status \in JobStatus \cup {NoStatus} : ListJobs(status) /\ QueueOnly
    \/ \E n \in 1..Len(tasks) : Start(n) /\ QueueOnly
    \/ \E n \in 1..Len(tasks) : Resume(n) /\ QueueOnly
    \/ \E n \in 1..Len(tasks) : Wake(n) /\ QueueOnly
    \/ \E n \in 1..Len(tasks) : DeliverCancel(n) /\ QueueOnly

\* every part in its initial state
Idle ==
    /\ Init /\ RedisInit /\ LibStart(FALSE, MaxHistory) /\ AppInit
    /\ RateStart(1, MaxWindow) /\ ServerStart

\* the InMemoryQueue
Spec == Idle /\ [][Next]_allVars

\* an InMemoryQueue and a RedisQueue given the same calls; the tasks of the
\* InMemoryQueue run, the RedisQueue has nothing that runs a job
BackendNext ==
    \/ BothEnqueue /\ UNCHANGED <<libVars, appVars, srvVars>>
    \/ \E job_id \in JobIds : BothGetResult(job_id) /\ UNCHANGED <<libVars, appVars, srvVars>>
    \/ \E job_id \in JobIds : BothCancel(job_id) /\ UNCHANGED <<libVars, appVars, srvVars>>
    \/ Tick /\ QueueOnly
    \/ \E n \in 1..Len(tasks) : Start(n) /\ QueueOnly
    \/ \E n \in 1..Len(tasks) : Resume(n) /\ QueueOnly
    \/ \E n \in 1..Len(tasks) : Wake(n) /\ QueueOnly
    \/ \E n \in 1..Len(tasks) : DeliverCancel(n) /\ QueueOnly

BackendSpec == Idle /\ [][BackendNext]_allVars

\* result.duration read on a JobResult constructed directly
ReadDuration ==
    /\ lastCall' = [op |-> "duration", arg |-> 1, ret |-> duration(rows[1])]
    /\ UNCHANGED <<now, jobKeys, jobs, taskOf, rows, tasks>>
    /\ QueueOnly

DataStart ==
    /\ DataInit /\ RedisInit /\ LibStart(FALSE, MaxHistory) /\ AppInit
    /\ RateStart(1, MaxWindow) /\ ServerStart

DataSpec == DataStart /\ [][ReadDuration]_allVars

\* get_queue, a function decorated with @cache, and a ConversationMemory
LibNext ==
    \/ Tick /\ QueueOnly
    \/ \E backend \in Backends :
        GetQueue(backend) /\ UNCHANGED <<vars, redisVars, cacheVars, memVars, appVars, srvVars>>
    \/ \E x \in CacheArgs :
        CachedCall(x) /\ UNCHANGED <<vars, redisVars, gqVars, memVars, appVars, srvVars>>
    \/ MemoryAdd("user1") /\ UNCHANGED <<vars, redisVars, gqVars, cacheVars, appVars, srvVars>>

LibStartAny ==
    /\ Init /\ RedisInit /\ LibInit /\ AppInit
    /\ RateStart(1, MaxWindow) /\ ServerStart

LibSpec == LibStartAny /\ [][LibNext]_allVars

\* an App serving one request at a time
AppOnly == UNCHANGED <<vars, redisVars, libVars, srvVars>>

AppNext ==
    \/ \E m \in Middlewares : Use(m) /\ AppOnly
    \/ \E route \in Routes : HttpRequest(route) /\ AppOnly
    \/ CallNext /\ AppOnly
    \/ Return /\ AppOnly
    \/ Raise /\ AppOnly
    \/ Catch /\ AppOnly

AppSpec == Idle /\ [][AppNext]_allVars

\* a RateLimiter called directly, for any limit and window
RateOnly == UNCHANGED <<vars, redisVars, libVars, appVars, http>>

RateNext ==
    \/ TimePasses /\ RateOnly
    \/ \E key \in Keys : IsAllowed(key) /\ RateOnly
    \/ \E key \in Keys : GetRemaining(key) /\ RateOnly

RateStartAny ==
    /\ Init /\ RedisInit /\ LibStart(FALSE, MaxHistory) /\ AppInit /\ ServerStart
    /\ \E max_requests \in 0..MaxRequests, window_seconds \in 0..MaxWindow :
        RateStart(max_requests, window_seconds)

RateSpec == RateStartAny /\ [][RateNext]_allVars

\* an App with the authentication and rate limiting middleware
ServerOnly == UNCHANGED <<vars, redisVars, libVars>>

ServerNext ==
    \/ \E m \in ServedMiddlewares : ServerUse(m) /\ ServerOnly
    \/ \E request \in HttpRequests : Serve(request) /\ ServerOnly
    \/ TimePasses /\ UNCHANGED <<appVars, http>> /\ ServerOnly

ServerSpec == Idle /\ [][ServerNext]_allVars


----------------------------------------------------------------------------
\* Properties of the queue

\* the JobResult registered under the id of task n
RowOf(n) == rows[jobs[tasks[n].jid]]

NewestFirst == [k \in 1..Len(rows) |-> Len(rows) + 1 - k]

\* C1: cancel(job_id) on a job whose status is Pending or Running returns
\* true and leaves the job's status Cancelled: the JobResult that get_result
\* returns right after the call has status Cancelled.
C1_CancelLeavesCancelled ==
    [][\A j \in JobIds :
        (/\ j \in DOMAIN jobs
         /\ rows[jobs[j]].status \in {"pending", "running"}
         /\ Cancel(j))
        => (lastCall'.ret = TRUE /\ rows'[jobs'[j]].status = "cancelled")]_vars

\* C2: every job for which cancel() returned true reaches status Cancelled
\* with completed_at stamped: once its task has ended, so that no step will
\* change the job any more, the job is Cancelled and completed_at is set.
C2_CancelledJobEndsCancelled ==
    \A n \in 1..Len(tasks) :
        (tasks[n].cancelOk /\ TaskDone(tasks[n]))
        => (RowOf(n).status = "cancelled" /\ RowOf(n).completed_at # None)

\* C3: cancel(job_id) on a job whose status is Completed, Failed or Cancelled
\* returns false and changes no field of any job (nor any task).
C3_CancelTerminalIsNoOp ==
    [][\A j \in JobIds :
        (/\ j \in DOMAIN jobs
         /\ rows[jobs[j]].status \in Terminal
         /\ Cancel(j))
        => (lastCall'.ret = FALSE /\ rows' = rows /\ tasks' = tasks /\ jobs' = jobs)]_vars

C3_Witness ==
    /\ lastCall.op = "cancel"
    /\ lastCall.arg \in DOMAIN jobs
    /\ lastCall.ret = FALSE
    /\ rows[jobs[lastCall.arg]].status \in Terminal

\* C4: a job enqueued with max_retries = N whose callable raised on every
\* attempt and that was never cancelled ends (its task has ended) with status
\* Failed, attempts = N, completed_at stamped and error the message of the
\* last exception raised, for every N enqueue accepts, 0 included.
C4_AlwaysFailingEndsFailed ==
    \A n \in 1..Len(tasks) :
        (TaskDone(tasks[n]) /\ ~ tasks[n].cancelOk /\ tasks[n].returnedAt = 0)
        => /\ RowOf(n).status = "failed"
           /\ RowOf(n).attempts = RowOf(n).max_retries
           /\ RowOf(n).completed_at # None
           /\ RowOf(n).error = Msg(RowOf(n).max_retries)

\* C5: a job whose callable raised on its invocations 1..k-1 and returned on
\* invocation k (1 <= k <= max_retries), and that was never cancelled, has
\* status Completed, attempts = k and result the value returned by
\* invocation k.
C5_SucceedsOnKthAttempt ==
    \A n \in 1..Len(tasks) :
        (tasks[n].returnedAt > 0 /\ ~ tasks[n].cancelOk)
        => /\ tasks[n].returnedAt <= RowOf(n).max_retries
           /\ RowOf(n).status = "completed"
           /\ RowOf(n).attempts = tasks[n].returnedAt
           /\ RowOf(n).result = Val(tasks[n].returnedAt)

C5_Witness ==
    \E n \in 1..Len(tasks) :
        /\ tasks[n].returnedAt = 2
        /\ ~ tasks[n].cancelOk
        /\ RowOf(n).status = "completed"
        /\ RowOf(n).max_retries = 3

\* C6: terminal states are immutable: no step changes any field of a
\* JobResult whose status is Completed, Failed or Cancelled.
C6_TerminalImmutable ==
    [][\A i \in 1..Len(rows) :
        rows[i].status \in Terminal => (Len(rows') >= i /\ rows'[i] = rows[i])]_vars

\* a terminal job, alongside another job that has run after it finished
C6_Witness ==
    \E i, k \in 1..Len(rows) :
        /\ i # k
        /\ rows[i].status \in Terminal
        /\ rows[k].status \in Terminal
        /\ rows[i].completed_at < rows[k].started_at
        /\ lastCall.op = "cancel" /\ lastCall.arg = rows[i].job_id

\* C7: when enqueue returns the id, get_result(id) is a JobResult with status
\* Pending, attempts 0 and the max_retries passed, and the callable has not
\* been invoked.
C7_EnqueueRegistersPending ==
    [][\A N \in RetryValues :
        Enqueue(Len(rows) + 1, N)
        => LET id == lastCall'.ret IN
           /\ id \in DOMAIN jobs'
           /\ rows'[jobs'[id]].job_id = id
           /\ rows'[jobs'[id]].status = "pending"
           /\ rows'[jobs'[id]].attempts = 0
           /\ rows'[jobs'[id]].max_retries = N
           /\ rows'[jobs'[id]].started_at = None
           /\ tasks'[taskOf'[id]].pc = "created"
           /\ tasks'[taskOf'[id]].invocations = 0]_vars

C7_Witness ==
    /\ lastCall.op = "enqueue"
    /\ rows[jobs[lastCall.ret]].status = "pending"
    /\ rows[jobs[lastCall.ret]].max_retries = 2
    /\ tasks[taskOf[lastCall.ret]].pc = "created"

\* C8: for an id that was never submitted, get_result returns None and
\* cancel returns false, and neither changes the job table or any job.
C8_AbsentIdIsNotExceptional ==
    [][\A j \in JobIds :
        j \notin DOMAIN jobs =>
            /\ GetResult(j) => (lastCall'.ret = 0 /\ jobs' = jobs /\ rows' = rows)
            /\ Cancel(j) => (lastCall'.ret = FALSE /\ jobs' = jobs /\ rows' = rows)]_vars

C8_Witness ==
    /\ lastCall.op = "cancel"
    /\ lastCall.arg \notin DOMAIN jobs
    /\ lastCall.ret = FALSE
    /\ Len(rows) > 0

C10_ListNewestFirst ==
    [][ListJobs(NoStatus) => lastCall'.ret = NewestFirst]_vars

\* C11: for every status s, list_jobs(status=s) is exactly the subsequence
\* of list_jobs() made of the jobs whose status is s, in the same relative
\* order.
C11_FilterIsSubsequence ==
    \A s \in JobStatus :
        list_jobs(s) = SelectSeq(list_jobs(NoStatus), LAMBDA i : rows[i].status = s)

\* a filtered listing of two jobs submitted at different times
C11_Witness ==
    /\ lastCall.op = "list_jobs"
    /\ lastCall.arg = "completed"
    /\ Len(rows) = 2
    /\ rows[1].created_at < rows[2].created_at
    /\ lastCall.ret = <<2, 1>>

C13_CancelDuringAttempt ==
    [][\A n \in 1..Len(tasks) :
        /\ (tasks[n].pc = "attempt" /\ DeliverCancel(n))
            => LET r == rows'[tasks[n].ref] IN
               /\ r.status = "cancelled"
               /\ is_done(r)
               /\ r.completed_at = now
               /\ r.result = None
               /\ r.attempts = rows[tasks[n].ref].attempts
               /\ tasks'[n].invocations = tasks[n].invocations
               /\ TaskDone(tasks'[n])
        /\ (tasks[n].ref # 0 /\ rows[tasks[n].ref].status = "cancelled")
            => /\ tasks'[n].invocations = tasks[n].invocations
               /\ rows'[tasks[n].ref] = rows[tasks[n].ref]]_vars

\* a job cancelled during its second attempt
C13_Witness ==
    \E n \in 1..Len(tasks) :
        /\ tasks[n].cancelOk
        /\ TaskDone(tasks[n])
        /\ RowOf(n).status = "cancelled"
        /\ RowOf(n).attempts = 2
        /\ tasks[n].invocations = 2
        /\ RowOf(n).result = None

\* C14: a job with max_retries = 3 whose callable raises on its first two
\* attempts and returns on the third is Completed (with attempts >= 2) no
\* later than 1 second after enqueue returned.
C14_RetriedJobDoneWithinOneSecond ==
    \A n \in 1..Len(tasks) :
        (/\ tasks[n].returnedAt = 3
         /\ RowOf(n).max_retries = 3
         /\ ~ tasks[n].cancelOk)
        => /\ RowOf(n).status = "completed"
           /\ RowOf(n).attempts >= 2
           /\ RowOf(n).completed_at <= RowOf(n).created_at + 1

\* C15: for a JobResult with created_at and completed_at set, duration is
\* completed_at - created_at, also when started_at was never set (created
\* at t and completed at t + 5: 5).
C15_DurationSinceCreated ==
    (lastCall.op = "duration" /\ rows[1].completed_at # None)
    => lastCall.ret = rows[1].completed_at - rows[1].created_at

\* C16: InMemoryQueue and RedisQueue are interchangeable: while no job has
\* finished, the same cancel call returns the same boolean on both, and the
\* same get_result call reports the same status on both (None for both when
\* the id is unknown), also after a cancel and for a second cancel.
C16_BackendsAgree ==
    [][\A j \in JobIds :
        (\A i \in 1..Len(rows) : rows[i].status \in {"pending", "running"})
        => /\ BothCancel(j) => lastCall'.ret = redisCall'.ret
           /\ BothGetResult(j) =>
                (IF lastCall'.ret = 0 THEN "None" ELSE rows'[lastCall'.ret].status)
                = (IF redisCall'.ret = <<>> THEN "None"
                   ELSE redisCall'.ret[1].status)]_allVars

\* C17: get_queue returns one process-wide queue: from the first successful
\* call on, every call, whatever backend it names, returns the instance the
\* first successful call returned, which is what _queue holds; a call with
\* the default backend never fails, and a queue created by it is an
\* InMemoryQueue.
C17_OneProcessWideQueue ==
    /\ getQueueLog.first = <<>> => (getQueueLog.last = <<>> /\ _queue = <<>>)
    /\ getQueueLog.first # <<>> =>
            (getQueueLog.last = getQueueLog.first /\ _queue = getQueueLog.first)
    /\ getQueueLog.lastArg = "memory" => getQueueLog.last # <<>>
    /\ getQueueLog.firstArg = "memory" => getQueueLog.first[1].type = "InMemoryQueue"

\* get_queue("redis"), where redis can be imported, after get_queue()
C17_Witness ==
    /\ redis_installed
    /\ getQueueLog.again
    /\ getQueueLog.firstArg = "memory"
    /\ getQueueLog.lastArg = "redis"
    /\ getQueueLog.last = getQueueLog.first
    /\ getQueueLog.last[1].type = "InMemoryQueue"

\* C18: with @cache(ttl=T), a call whose arguments were given to an earlier
\* call that ran the function less than T seconds before returns that result
\* without running the function, a call with arguments not seen before runs
\* it: after f(5), f(5), f(10) the function has run exactly twice.
C18_SecondCallIsCached ==
    /\ \A i \in 1..Len(cacheLog) :
        LET fresh == {k \in 1..(i - 1) : /\ cacheLog[k].arg = cacheLog[i].arg
                                         /\ cacheLog[k].ran
                                         /\ cacheLog[i].at < cacheLog[k].at + CacheTtl}
        IN  /\ fresh # {} => /\ ~ cacheLog[i].ran
                             /\ \A k \in fresh : cacheLog[i].ret = cacheLog[k].ret
            /\ (\A k \in 1..(i - 1) : cacheLog[k].arg # cacheLog[i].arg) => cacheLog[i].ran
    /\ [k \in 1..Len(cacheLog) |-> cacheLog[k].arg] = <<5, 5, 10>> => call_count = 2

\* C19: after any sequence of add calls, for every max_history >= 0, get()
\* returns at most max_history messages, and they are the most recently
\* added ones in the order they were added.
C19_HistoryIsBounded ==
    LET got == memory_get("user1")
        n == Len(added)
        k == IF n < max_history THEN n ELSE max_history
    IN  /\ Len(got) <= max_history
        /\ got = SubSeq(added, n - k + 1, n)

\* how many callables of the request are running or awaiting after the
\* first k events
Depth(t, k) ==
    Cardinality({i \in 1..k : t[i].ev \in {"enter", "handler"}})
    - Cardinality({i \in 1..k : t[i].ev \in {"exit", "raise"}})

\* C20: for a non-streaming request with the middlewares m1..mn registered
\* in this order, m1 is entered first, m(i+1) is entered only by a call of
\* next made by m(i), the route handler runs only by a call of next made by
\* mn, once per call, and a callable returns (or raises) only when every
\* callable entered after it has: the responses come back through mn..m1.
C20_MiddlewareOrder ==
    (req.route = "plain" /\ req.mws # <<>>) =>
        LET t == req.trace
            m == req.mws
            n == Len(m)
        IN  /\ t # <<>>
            /\ t[1] = Event("enter", 1, m[1])
            /\ \A k \in 1..Len(t) :
                /\ t[k].ev = "enter" =>
                    /\ t[k].pos \in 1..n
                    /\ t[k].name = m[t[k].pos]
                    /\ Depth(t, k - 1) = t[k].pos - 1
                    /\ t[k].pos > 1 =>
                        t[k - 1] = Event("next", t[k].pos - 1, m[t[k].pos - 1])
                /\ t[k].ev = "handler" =>
                    /\ k > 1
                    /\ t[k].pos = n + 1
                    /\ t[k - 1] = Event("next", n, m[n])
                    /\ Depth(t, k - 1) = n
                /\ t[k].ev \in {"exit", "raise"} => Depth(t, k - 1) = t[k].pos
            /\ Cardinality({k \in 1..Len(t) : t[k].ev = "handler"})
                 = Cardinality({k \in 1..Len(t) : t[k] = Event("next", n, m[n])})
            /\ (req.phase = "done" /\ req.status = 200) =>
                    t[Len(t)] = Event("exit", 1, m[1])

\* a request that went through two middlewares to the handler and back
C20_Witness ==
    /\ req.phase = "done"
    /\ req.mws = <<"mw_a", "mw_b">>
    /\ req.trace = <<Event("enter", 1, "mw_a"), Event("next", 1, "mw_a"),
                     Event("enter", 2, "mw_b"), Event("next", 2, "mw_b"),
                     Event("handler", 3, "handler"), Event("exit", 3, "handler"),
                     Event("exit", 2, "mw_b"), Event("exit", 1, "mw_a")>>

----------------------------------------------------------------------------
\* Properties of a job's execution (_execute_job)

C25_DoneIffNoFurtherExecution ==
    \A n \in 1..Len(tasks) :
        TaskDone(tasks[n]) <=> is_done(RowOf(n))

\* C26: started_at is unset while the job is Pending, is stamped at the step
\* that takes the job out of Pending, and is left unchanged by every later
\* step.
C26_StartedAtStampedOnce ==
    [][\A i \in 1..Len(rows) :
        /\ (rows[i].status = "pending") = (rows[i].started_at = None)
        /\ rows[i].started_at # None => rows'[i].started_at = rows[i].started_at
        /\ (rows[i].status = "pending" /\ rows'[i].status # "pending")
           => rows'[i].started_at = now]_vars

\* a job started at time 0 that has failed, slept and ended later
C26_Witness ==
    \E i \in 1..Len(rows) :
        /\ rows[i].started_at = 0
        /\ rows[i].attempts >= 2
        /\ rows[i].status \in Terminal
        /\ rows[i].completed_at > 0

\* C27: the attempts of one job are strictly sequential: a step starts at
\* most one invocation, and invocation n+1 starts only from the backoff sleep
\* that followed invocation n, after invocation n's error has been recorded
\* and the sleep's deadline (2^n seconds after the failure) has been reached,
\* whatever the other tasks and the callers of the queue's API do in between.
C27_AttemptsAreSequential ==
    [][\A n \in 1..Len(tasks) :
        /\ tasks'[n].invocations \in {tasks[n].invocations, tasks[n].invocations + 1}
        /\ (tasks'[n].invocations = tasks[n].invocations + 1 /\ tasks[n].invocations >= 1)
           => /\ tasks[n].pc = "backoff"
              /\ RowOf(n).error = Msg(tasks[n].invocations)
              /\ RowOf(n).status = "running"
              /\ tasks[n].wake # None
              /\ now' >= tasks[n].wake]_vars

\* the third invocation of one job in flight while another job's task is
\* suspended in its own invocation
C27_Witness ==
    \E n, m \in 1..Len(tasks) :
        /\ n # m
        /\ tasks[n].invocations = 3
        /\ tasks[n].pc = "attempt"
        /\ tasks[m].pc = "attempt"
        /\ now >= 6

\* C29: at most one cancel() per job returns true: once a cancel of the job
\* has returned true, every later cancel of it returns false.
C29_OnlyOneCancelReturnsTrue ==
    [][\A j \in JobIds :
        (/\ j \in DOMAIN taskOf
         /\ tasks[taskOf[j]].cancelOk
         /\ Cancel(j))
        => lastCall'.ret = FALSE]_vars

----------------------------------------------------------------------------
\* InMemoryQueue used directly: the caller of enqueue chooses the id, and may
\* pass one that is registered already.

EnqueueAny ==
    \E job_id \in JobIds, max_retries \in RetryValues :
        Enqueue(job_id, max_retries)

ReenqueueNext ==
    \/ Tick /\ QueueOnly
    \/ EnqueueAny /\ QueueOnly
    \/ \E job_id \in JobIds : GetResult(job_id) /\ QueueOnly
    \/ \E job_id \in JobIds : Cancel(job_id) /\ QueueOnly
    \/ \E n \in 1..Len(tasks) : Start(n) /\ QueueOnly
    \/ \E n \in 1..Len(tasks) : Resume(n) /\ QueueOnly
    \/ \E n \in 1..Len(tasks) : Wake(n) /\ QueueOnly
    \/ \E n \in 1..Len(tasks) : DeliverCancel(n) /\ QueueOnly

ReenqueueSpec == Idle /\ [][ReenqueueNext]_allVars

\* C28: for every sequence of enqueue calls, including calls that pass a
\* job_id that is already registered, each JobResult is written by at most
\* one task, and no step changes a JobResult that has reached a terminal
\* status.
C28_OneWriterPerJobResult ==
    /\ [](\A m, n \in 1..Len(tasks) :
            (m # n /\ tasks[m].ref # 0) => tasks[m].ref # tasks[n].ref)
    /\ [][\A i \in 1..Len(rows) :
            rows[i].status \in Terminal => rows'[i] = rows[i]]_vars

----------------------------------------------------------------------------
\* Properties of the middleware

\* the is_allowed(key) calls that returned True with a timestamp in
\* (t - window_seconds, t]
AcceptedIn(key, t) ==
    {i \in 1..Len(accepted[key]) :
        accepted[key][i] > t - limiter.window_seconds /\ accepted[key][i] <= t}

\* C21: for every key and every instant t, the is_allowed(key) calls that
\* returned True with a timestamp in (t - window_seconds, t] are at most
\* max_requests; a call that returns False is not recorded and takes none
\* of the quota; and a call for one key changes nothing for another key.
C21_SlidingWindowLimit ==
    /\ [](\A key \in Keys, t \in 0..(MaxTime + MaxWindow) :
            Cardinality(AcceptedIn(key, t)) <= limiter.max_requests)
    /\ [][\A key \in Keys :
            IsAllowed(key)
            => /\ \A other \in Keys \ {key} :
                    /\ limiter'.requests[other] = limiter.requests[other]
                    /\ accepted'[other] = accepted[other]
                    /\ is_allowed(limiter', other, wall').ok
                            = is_allowed(limiter, other, wall).ok
                    /\ get_remaining(limiter', other, wall')
                            = get_remaining(limiter, other, wall)
               /\ rateCall'.ret = FALSE
                  => /\ accepted' = accepted
                     /\ get_remaining(limiter', key, wall') = get_remaining(limiter, key, wall)
                     /\ limiter'.requests[key]
                            = in_window(limiter.requests[key], limiter, wall)
               /\ rateCall'.ret = TRUE
                  => accepted'[key] = Append(accepted[key], wall)]_rateVars

\* a limiter of 2 requests per 2 seconds that has let a key through at 0
\* and at 1, and at 2 again, the call of 0 having left the window, and then
\* refuses the key, having let the other key through in between
C21_Witness ==
    /\ limiter.max_requests = 2
    /\ limiter.window_seconds = 2
    /\ accepted["c1"] = <<0, 1, 2>>
    /\ accepted["unknown"] = <<1>>
    /\ rateCall = [op |-> "is_allowed", key |-> "c1", ret |-> FALSE]
    /\ wall = 2

\* C22: with bearer_auth(token) registered, a request to a route that does
\* not stream reaches the handler if and only if its Authorization header is
\* 'Bearer <token>' (when bearer_auth is the only middleware), and never
\* without it: the HTTP header decides, not the handler's parameters or the
\* body.
C22_BearerHeaderDecides ==
    (http.request.route = "plain"
     /\ \E k \in 1..Len(http.mws) : http.mws[k] = "bearer_auth")
    => /\ http.called => http.request.authorization = Bearer(Token)
       /\ (http.mws = <<"bearer_auth">> /\ http.request.authorization = Bearer(Token))
          => http.called

\* C23: when a middleware answers without calling next (401 from the
\* authentication, 429 from the rate limit), the handler is not invoked and
\* the http.response.start message carries that status.
C23_RejectionStatusIsSent ==
    http.response.status \in {401, 429}
    => /\ ~ http.called
       /\ http.sent[1].type = "http.response.start"
       /\ http.sent[1].status = http.response.status

\* C30: every registered middleware runs before the route handler, for
\* every route, streaming ones included: when the handler was invoked, all
\* the middlewares registered had run, in order, and let the request
\* through.
C30_MiddlewareBeforeEveryHandler ==
    http.called => http.ran = http.mws

====
